---------------------------- MODULE Spec2Model ----------------------------
(***************************************************************************)
(* Model of BufferedFileWriter (src/BufferedFileWriter.h, .cpp): a fixed   *)
(* size write buffer in front of FS_FWrite(), with a running count of the  *)
(* bytes accepted.                                                         *)
(*                                                                         *)
(* The program state is file, buff, writePtr, bytesWrittenTotal.  lineBuff *)
(* is scratch: logPrintf overwrites the part of it that it then reads, so  *)
(* it is a value local to the logPrintf action and not a variable.         *)
(* writePtr is kept as the offset writePtr - buff; writeEndPtr is the      *)
(* offset buff + sizeof(buff) - buff.  write() is modelled statement by    *)
(* statement (one action per loop statement) so that the states inside a   *)
(* call are states of the model.  The remaining variables are history      *)
(* variables that record what a caller and the file system can observe.    *)
(***************************************************************************)
EXTENDS Integers, Sequences, FiniteSets

\* ---------------------------------------------------------------- sizes
\* BufferSize and LineBuffSize are 4096 and 2048 in the header; the model
\* scales them down.
BufferSize == 2
LineBuffSize == 2
\* Longest byte sequence a caller passes to write()/writeStr().
MaxLen == 3
\* Largest length vsnprintf() reports for one logPrintf() call: long enough
\* for write() to read past the end of lineBuff.
MaxFmtLen == LineBuffSize + 2
\* Bytes accepted between two resets of the history (setFile/clear).
MaxHist == 4
\* Cap of bytesWrittenTotal between two resetBytesWrittenTotal() calls.
MaxTotal == MaxHist

\* enum WriteResult { WriteNoFile = UINT32_MAX }: the value 0xFFFFFFFF, written
\* here as that bit pattern read as a signed 32-bit integer (TLC's integers).
WriteNoFile == -1

NULL == "NULL"
Files == {"h1", "h2"}
\* Byte values: 0 is the string terminator, the others are characters.
Byte == {0, 1}
Char == Byte \ {0}

SeqsUpTo(S, n) == UNION {[1..k -> S] : k \in 0..n}

\* FS_FWrite(buff, size, 1, file) returns the number of items written out
\* of N = 1: 1 when the block was written, 0 when it was not.
FS_FWriteResults == {0, 1}
FS_FWriteFailed(r) == r = 0

VARIABLES
    file,               \* FS_FILE *file: NULL or the attached handle
    buff,               \* char buff[BufferSize], as a sequence of BufferSize bytes
    writePtr,           \* writePtr - buff
    bytesWrittenTotal,  \* size_t bytesWrittenTotal
    alive,              \* FALSE once the destructor has run
    pc,                 \* position inside write(): "idle", "loop", "check", "return"
    source,             \* write(): the bytes from *source on that are still to be copied
    nChars,             \* write(): nChars
    retval,             \* write(): retval
    op,                 \* history: the public operation running or last completed
    argFile,            \* history: the handle passed to it (NULL if none)
    argLen,             \* history: the length passed to write() by it (0 if none)
    pre,                \* history: file, writePtr, total and buffered bytes when it was called
    io,                 \* history: the FS_FWrite calls issued during it, in order
    result,             \* history: the uint32_t it returned (0 for a void operation)
    retbool,            \* history: the bool logPrintf returned
    accepted,           \* history: bytes passed to write() on a handle since setFile/clear
    flushed,            \* history: payloads handed to FS_FWrite since setFile/clear
    sumLens,            \* history: sum of the lengths passed to write() on a handle since
                        \* construction or resetBytesWrittenTotal()
    outstanding         \* history: bytes write() has stored since construction, less
                        \* those handed to FS_FWrite and those dropped by clear()/setFile()

vars == <<file, buff, writePtr, bytesWrittenTotal, alive, pc, source, nChars,
          retval, op, argFile, argLen, pre, io, result, retbool, accepted, flushed, sumLens,
          outstanding>>

prog == <<file, buff, writePtr, bytesWrittenTotal>>
call == <<pc, source, nChars, retval>>

\* ---------------------------------------------------------------- helpers
writeEndPtr == BufferSize

\* bufferCount(): writePtr - buff
bufferCount == writePtr

\* getBytesWrittenTotal()
getBytesWrittenTotal == bytesWrittenTotal

\* A flush that sends one byte too few.
FlushPayloadShort(b, wp) == SubSeq(b, 1, wp - 1)

\* FS_FWrite(buff, (size_t)(writePtr - buff), 1, file): the bytes handed over.
FlushPayload(b, wp) == SubSeq(b, 1, wp)

\* The bytes now buffered.
Buffered == FlushPayload(buff, writePtr)

\* The number of bytes the FS_FWrite calls ios were handed.
RECURSIVE Handed(_)
Handed(ios) == IF ios = <<>> THEN 0 ELSE Len(Head(ios).data) + Handed(Tail(ios))

Snapshot == [file |-> file, writePtr |-> writePtr, total |-> bytesWrittenTotal,
             data |-> Buffered]

RECURSIVE Concat(_)
Concat(ps) == IF ps = <<>> THEN <<>> ELSE Head(ps).data \o Concat(Tail(ps))

IsPrefix(s, t) == Len(s) <= Len(t) /\ SubSeq(t, 1, Len(s)) = s

\* ---------------------------------------------------------------- clear()
\* A clear() that leaves the write pointer where it is.
ClearKeeps(wp) == wp

\* clear(): writePtr = buff;
ClearWritePtr(wp) == 0

\* ---------------------------------------------------------------- flush()
\* A flush() that calls FS_FWrite whenever a file is attached.
FlushWritesAlways(f, wp) == f # NULL

\* flush() issues FS_FWrite only on the branch  else if (writePtr > buff).
FlushWrites(f, wp) == f # NULL /\ wp > 0

\* The value flush() returns, r being what FS_FWrite returns if it is called.
FlushRetval(f, wp, r) ==
    IF f = NULL THEN WriteNoFile
    ELSE IF wp > 0 THEN r
    ELSE 0

\* A flush() that keeps the buffer when FS_FWrite fails.
FlushKeepsOnFailure(f, wp, r) ==
    IF FlushWrites(f, wp) /\ ~FS_FWriteFailed(r) THEN 0 ELSE wp

\* writePtr after flush(): reset whatever FS_FWrite returned.
FlushWritePtr(f, wp, r) == IF FlushWrites(f, wp) THEN 0 ELSE wp

\* The FS_FWrite calls flush() issues.
FlushIo(f, wp, r) ==
    IF FlushWrites(f, wp)
    THEN <<[file |-> f, data |-> FlushPayload(buff, wp), ret |-> r]>>
    ELSE <<>>

\* The same, as an entry of the history flushed; auto tells an automatic
\* flush (from write()) from one the user or the destructor called.
FlushEntry(f, wp, auto) ==
    IF FlushWrites(f, wp)
    THEN <<[data |-> FlushPayload(buff, wp), auto |-> auto]>>
    ELSE <<>>

\* ---------------------------------------------------------------- operations
Idle == alive /\ pc = "idle"

\* setFile(_file): file = _file; clear();
SetFile(f) ==
    /\ Idle
    /\ file' = f
    /\ writePtr' = ClearWritePtr(writePtr)
    /\ op' = "setFile" /\ argFile' = f /\ argLen' = 0 /\ pre' = Snapshot /\ io' = <<>>
    /\ result' = 0
    /\ accepted' = <<>> /\ flushed' = <<>>
    /\ outstanding' = outstanding - (writePtr - ClearWritePtr(writePtr))
    /\ UNCHANGED <<buff, bytesWrittenTotal, alive, call, retbool, sumLens>>

\* clear(): writePtr = buff;
Clear ==
    /\ Idle
    /\ writePtr' = ClearWritePtr(writePtr)
    /\ op' = "clear" /\ argFile' = NULL /\ argLen' = 0 /\ pre' = Snapshot /\ io' = <<>>
    /\ result' = 0
    /\ accepted' = <<>> /\ flushed' = <<>>
    /\ outstanding' = outstanding - (writePtr - ClearWritePtr(writePtr))
    /\ UNCHANGED <<file, buff, bytesWrittenTotal, alive, call, retbool, sumLens>>

\* resetBytesWrittenTotal(): bytesWrittenTotal = 0;
ResetBytesWrittenTotal ==
    /\ Idle
    /\ bytesWrittenTotal' = 0
    /\ op' = "reset" /\ argFile' = NULL /\ argLen' = 0 /\ pre' = Snapshot /\ io' = <<>>
    /\ result' = 0
    /\ sumLens' = 0
    /\ UNCHANGED <<file, buff, writePtr, alive, call, retbool, accepted, flushed,
                   outstanding>>

\* flush(), called by the user.
Flush ==
    /\ Idle
    /\ \E r \in FS_FWriteResults :
        /\ result' = FlushRetval(file, writePtr, r)
        /\ io' = FlushIo(file, writePtr, r)
        /\ outstanding' = outstanding - Handed(FlushIo(file, writePtr, r))
        /\ writePtr' = FlushWritePtr(file, writePtr, r)
    /\ flushed' = flushed \o FlushEntry(file, writePtr, FALSE)
    /\ op' = "flush" /\ argFile' = NULL /\ argLen' = 0 /\ pre' = Snapshot
    /\ UNCHANGED <<file, buff, bytesWrittenTotal, alive, call, retbool,
                   accepted, sumLens>>

\* ---------------------------------------------------------------- write()
\* A test that flushes one byte before the buffer is full.
BufferFullEarly(wp) == wp >= writeEndPtr - 1

\* A test that lets one byte more in before it flushes.
BufferFullLate(wp) == wp > writeEndPtr

\* if (writePtr >= writeEndPtr): the buffer is full.
BufferFull(wp) == wp >= writeEndPtr

\* A count that misses the byte.
CountByteSkips(t) == t

\* ++bytesWrittenTotal;
CountByte(t) == t + 1

\* A write() that keeps the first non-zero status instead of the last.
AssignRetvalFirst(old, new) == IF old # 0 THEN old ELSE new

\* retval = flush();
AssignRetval(old, new) == new

\* retval on entry to write(): WriteNoFile when NULL == file, else 0.
WriteInitRetval(f) == IF f = NULL THEN WriteNoFile ELSE 0

\* The caller may pass n more bytes (bounds of the model).
Room(n) == Len(accepted) + n <= MaxHist /\ bytesWrittenTotal + n <= MaxTotal

\* Entry of write(src, n), whether called by the user, writeStr or logPrintf:
\* retval is initialised and the loop is entered only if a file is attached.
WriteEnter(name, src, n) ==
    /\ Idle
    /\ file # NULL => Room(n)
    /\ op' = name /\ argFile' = NULL /\ argLen' = n /\ pre' = Snapshot /\ io' = <<>>
    /\ result' = 0 /\ retbool' = FALSE
    /\ source' = src /\ nChars' = n
    /\ retval' = WriteInitRetval(file)
    /\ pc' = IF file = NULL THEN "return" ELSE "loop"
    /\ accepted' = IF file = NULL THEN accepted ELSE accepted \o src
    /\ sumLens' = IF file = NULL THEN sumLens ELSE sumLens + n

\* The names under which logPrintf enters write(): with a format, and with
\* NULL for a format.
LogOps == {"logPrintf", "logPrintfNull"}

\* write(source, nChars), called by the user with nChars = the length of source.
Write(src) ==
    /\ WriteEnter("write", src, Len(src))
    /\ UNCHANGED <<prog, alive, flushed, outstanding>>

\* A loop that also stops once an FS_FWrite of the call has failed.
LoopStopsOnFailure(n, ios) ==
    n > 0 /\ \A i \in 1..Len(ios) : ~FS_FWriteFailed(ios[i].ret)

\* while (nChars > 0): the condition looks at the count alone, not at what
\* the flushes of the call (ios) returned.
LoopCond(n, ios) == n > 0

\* while (nChars > 0) { *writePtr++ = *source++; --nChars; ++bytesWrittenTotal;
WriteAppend ==
    /\ alive /\ pc = "loop" /\ LoopCond(nChars, io)
    /\ buff' = [buff EXCEPT ![writePtr + 1] = Head(source)]
    /\ writePtr' = writePtr + 1
    /\ source' = Tail(source)
    /\ nChars' = nChars - 1
    /\ bytesWrittenTotal' = CountByte(bytesWrittenTotal)
    /\ outstanding' = outstanding + 1
    /\ pc' = "check"
    /\ UNCHANGED <<file, alive, retval, op, argFile, argLen, pre, io, result,
                   retbool, accepted, flushed, sumLens>>

\* if (writePtr >= writeEndPtr) { retval = flush(); } }
WriteCheck ==
    /\ alive /\ pc = "check"
    /\ IF BufferFull(writePtr)
       THEN /\ \E r \in FS_FWriteResults :
                /\ retval' = AssignRetval(retval, FlushRetval(file, writePtr, r))
                /\ io' = io \o FlushIo(file, writePtr, r)
                /\ outstanding' = outstanding - Handed(FlushIo(file, writePtr, r))
                /\ writePtr' = FlushWritePtr(file, writePtr, r)
            /\ flushed' = flushed \o FlushEntry(file, writePtr, TRUE)
       ELSE UNCHANGED <<retval, io, writePtr, flushed, outstanding>>
    /\ pc' = "loop"
    /\ UNCHANGED <<file, buff, bytesWrittenTotal, alive, source, nChars, op,
                   argFile, argLen, pre, result, retbool, accepted, sumLens>>

\* return retval; of write(), and the return of the caller when write() was
\* called by writeStr (which returns write's value) or by logPrintf (which
\* has no return statement: the bool the caller reads is indeterminate).
WriteReturn ==
    /\ alive /\ pc \in {"loop", "return"}
    /\ pc = "loop" => ~LoopCond(nChars, io)
    /\ pc' = "idle"
    /\ result' = IF op \in LogOps THEN 0 ELSE retval
    /\ retbool' \in IF op \in LogOps THEN BOOLEAN ELSE {FALSE}
    /\ retval' = 0
    /\ UNCHANGED <<prog, alive, source, nChars, op, argFile, argLen, pre, io,
                   accepted, flushed, sumLens, outstanding>>

\* ---------------------------------------------------------------- writeStr()
\* strlen(): the number of bytes before the first 0 of the memory at string.
RECURSIVE strlen(_)
strlen(mem) == IF mem = <<>> \/ Head(mem) = 0 THEN 0 ELSE 1 + strlen(Tail(mem))

\* A string of the caller: characters followed by the terminator.
CString(s) == s \o <<0>>

\* writeStr(string), string not NULL: retval = write(string, strlen(string));
WriteStr(s) ==
    /\ WriteEnter("writeStr", SubSeq(CString(s), 1, strlen(CString(s))),
                  strlen(CString(s)))
    /\ UNCHANGED <<prog, alive, flushed, outstanding>>

\* writeStr(NULL): returns retval = 0 without calling write().
WriteStrNull ==
    /\ Idle
    /\ op' = "writeStrNull" /\ argFile' = NULL /\ argLen' = 0 /\ pre' = Snapshot
    /\ io' = <<>>
    /\ result' = 0
    /\ UNCHANGED <<prog, alive, call, retbool, accepted, flushed, sumLens,
                   outstanding>>

\* ---------------------------------------------------------------- logPrintf()
Min(a, b) == IF a < b THEN a ELSE b

\* vsnprintf(lineBuff, LineBuffSize, fmt, vl) for a format that renders to the
\* text t: stores the first LineBuffSize - 1 characters of t and a terminator,
\* leaves the rest of lineBuff alone.
VsnprintfStored(t) == SubSeq(t, 1, Min(Len(t), LineBuffSize - 1)) \o <<0>>

VsnprintfBuff(lb, t) ==
    [i \in 1..(LineBuffSize + 1) |->
        IF i <= Len(VsnprintfStored(t)) THEN VsnprintfStored(t)[i] ELSE lb[i]]

\* ... and returns the length of the whole text t, stored or not.
VsnprintfRet(t) == Len(t)

\* The nChars bytes write(lineBuff, nChars) reads: those of lineBuff, then,
\* past the end of the array, bytes of whatever follows it (tail).
LineBuffRead(lb, n, tail) == SubSeq(lb, 1, Min(n, LineBuffSize + 1)) \o tail

OverRead(n) == IF n > LineBuffSize + 1 THEN n - (LineBuffSize + 1) ELSE 0

\* lineBuff when logPrintf is called.  The constructor does not initialise it
\* and nothing ever writes its last element, whose value is last; the other
\* elements are overwritten by vsnprintf before write() reads them, or are
\* not read at all.
LineBuffBefore(last) ==
    [i \in 1..(LineBuffSize + 1) |-> IF i = LineBuffSize + 1 THEN last ELSE 0]

\* logPrintf(fmt, ...): nChars = vsnprintf(...); write(lineBuff, nChars);
LogPrintf(t) ==
    /\ \E last \in Byte, tail \in [1..OverRead(VsnprintfRet(t)) -> Byte] :
        WriteEnter("logPrintf",
                   LineBuffRead(VsnprintfBuff(LineBuffBefore(last), t),
                                VsnprintfRet(t), tail),
                   VsnprintfRet(t))
    /\ UNCHANGED <<prog, alive, flushed, outstanding>>

\* logPrintf(NULL, ...): fmt is handed to vsnprintf unchecked, which is
\* undefined for a null format.  Where address 0 is readable, vsnprintf takes
\* whatever bytes lie there for the format and renders some text t ...
LogPrintfNull(t) ==
    /\ \E last \in Byte, tail \in [1..OverRead(VsnprintfRet(t)) -> Byte] :
        WriteEnter("logPrintfNull",
                   LineBuffRead(VsnprintfBuff(LineBuffBefore(last), t),
                                VsnprintfRet(t), tail),
                   VsnprintfRet(t))
    /\ UNCHANGED <<prog, alive, flushed, outstanding>>

\* ... and where it is not, the read faults and the program stops there.
LogPrintfNullFault ==
    /\ Idle
    /\ pc' = "fault"
    /\ op' = "logPrintfNull" /\ argFile' = NULL /\ argLen' = 0 /\ pre' = Snapshot
    /\ io' = <<>>
    /\ UNCHANGED <<prog, alive, source, nChars, retval, result, retbool,
                   accepted, flushed, sumLens, outstanding>>

\* ---------------------------------------------------------------- destructor
\* A destructor that forgets the file before it flushes.
DtorFlushFileCleared(f) == NULL

\* The file flush() sees when the destructor calls it: flush() comes before
\* file = NULL.
DtorFlushFile(f) == f

\* ~BufferedFileWriter(): if (NULL != file) { flush(); file = NULL; }
Destroy ==
    /\ Idle
    /\ \E r \in FS_FWriteResults :
        /\ result' = FlushRetval(DtorFlushFile(file), writePtr, r)
        /\ io' = FlushIo(DtorFlushFile(file), writePtr, r)
        /\ outstanding' =
              outstanding - Handed(FlushIo(DtorFlushFile(file), writePtr, r))
        /\ writePtr' = FlushWritePtr(DtorFlushFile(file), writePtr, r)
    /\ flushed' = flushed \o FlushEntry(DtorFlushFile(file), writePtr, FALSE)
    /\ file' = NULL
    /\ alive' = FALSE
    /\ op' = "destroy" /\ argFile' = NULL /\ argLen' = 0 /\ pre' = Snapshot
    /\ UNCHANGED <<buff, bytesWrittenTotal, call, retbool, accepted, sumLens>>

\* ---------------------------------------------------------------- the machine
\* BufferedFileWriter(): bytesWrittenTotal = 0; file = NULL; clear();
Init ==
    /\ file = NULL
    /\ buff = [i \in 1..BufferSize |-> 0]
    /\ writePtr = 0
    /\ bytesWrittenTotal = 0
    /\ alive = TRUE
    /\ pc = "idle"
    /\ source = <<>>
    /\ nChars = 0
    /\ retval = 0
    /\ op = "init"
    /\ argFile = NULL
    /\ argLen = 0
    /\ pre = [file |-> NULL, writePtr |-> 0, total |-> 0, data |-> <<>>]
    /\ io = <<>>
    /\ result = 0
    /\ retbool = FALSE
    /\ accepted = <<>>
    /\ flushed = <<>>
    /\ sumLens = 0
    /\ outstanding = 0

Next ==
    \/ \E f \in Files \cup {NULL} : SetFile(f)
    \/ Clear
    \/ ResetBytesWrittenTotal
    \/ Flush
    \/ \E src \in SeqsUpTo(Byte, MaxLen) : Write(src)
    \/ WriteAppend
    \/ WriteCheck
    \/ WriteReturn
    \/ \E s \in SeqsUpTo(Char, MaxLen) : WriteStr(s)
    \/ WriteStrNull
    \/ \E t \in SeqsUpTo(Char, MaxFmtLen) : LogPrintf(t)
    \/ \E t \in SeqsUpTo(Char, MaxFmtLen) : LogPrintfNull(t)
    \/ LogPrintfNullFault
    \/ Destroy

Spec == Init /\ [][Next]_vars

\* ---------------------------------------------------------------- properties
WriteOps == {"write", "writeStr", "logPrintf"}

\* The operation name has returned to its caller.
Returned(names) == pc = "idle" /\ op \in names

\* Every payload in flushed came from an automatic flush, except the one a
\* flush() that has just returned may have added itself.
NoExplicitBefore ==
    \A i \in 1..Len(flushed) :
        flushed[i].auto \/ (op = "flush" /\ io # <<>> /\ i = Len(flushed))

AnyWriteFailed == \E i \in 1..Len(io) : FS_FWriteFailed(io[i].ret)

\* C1: after writes on an attached handle that started from an empty buffer
\* (no setFile/clear in between) and a final flush(), the payloads handed to
\* FS_FWrite, concatenated in the order issued, are exactly the bytes passed
\* to write, in order (so the lengths add up), whatever FS_FWrite returned.
C1_DataConservation ==
    (Returned({"flush"}) /\ pre.file # NULL) =>
        /\ Concat(flushed) = accepted
        /\ bufferCount = 0

C1_Witness ==
    /\ Returned({"flush"}) /\ pre.file # NULL
    /\ Len(flushed) >= 2 /\ flushed[1].auto
    /\ pre.writePtr > 0
    /\ AnyWriteFailed

C3_AutoFlushAtCapacity ==
    (alive /\ op \in WriteOps /\ pre.file # NULL) =>
        LET k == argLen - nChars IN
        /\ \A i \in 1..Len(io) :
              Len(io[i].data) = BufferSize /\ io[i].file = pre.file
        /\ pc \in {"loop", "idle"} =>
              /\ Len(io) = (pre.writePtr + k) \div BufferSize
              /\ bufferCount = (pre.writePtr + k) % BufferSize
        /\ pc = "check" =>
              /\ Len(io) = (pre.writePtr + k - 1) \div BufferSize
              /\ bufferCount = ((pre.writePtr + k - 1) % BufferSize) + 1
        /\ pc = "idle" => nChars = 0

C3_Witness ==
    /\ Returned({"write"}) /\ pre.file # NULL
    /\ pre.writePtr = 0 /\ argLen = BufferSize + 1
    /\ Len(io) = 1 /\ bufferCount = 1

C5_FlushWritesOnce ==
    (Returned({"flush"}) /\ pre.file # NULL /\ pre.writePtr > 0) =>
        /\ Len(io) = 1
        /\ io[1].file = pre.file
        /\ io[1].data = pre.data
        /\ Len(io[1].data) = pre.writePtr
        /\ bufferCount = 0
        /\ result = io[1].ret
        /\ bytesWrittenTotal = pre.total
        /\ file = pre.file

C5_Witness ==
    /\ Returned({"flush"}) /\ pre.file # NULL /\ pre.writePtr > 0
    /\ AnyWriteFailed
    /\ bufferCount = 0

\* C6: flush() issues no FS_FWrite and changes nothing when no file is
\* attached (it returns WriteNoFile) and when a file is attached and the
\* buffer is empty (it returns 0).
C6_FlushNoOp ==
    /\ (Returned({"flush"}) /\ pre.file = NULL) =>
          /\ result = WriteNoFile /\ io = <<>>
          /\ bufferCount = pre.writePtr /\ bytesWrittenTotal = pre.total
          /\ file = pre.file
    /\ (Returned({"flush"}) /\ pre.file # NULL /\ pre.writePtr = 0) =>
          /\ result = 0 /\ io = <<>>
          /\ bufferCount = pre.writePtr /\ bytesWrittenTotal = pre.total
          /\ file = pre.file

C6_Witness ==
    /\ Returned({"flush"}) /\ pre.file # NULL /\ pre.writePtr = 0
    /\ bytesWrittenTotal > 0
    /\ result = 0

\* C7 as claimed: write, writeStr (of a string) and logPrintf called with no
\* file attached report the missing file (WriteNoFile, false for logPrintf),
\* buffer nothing, issue no FS_FWrite and leave the total alone.
C7_NoFileRejected ==
    (Returned(WriteOps) /\ pre.file = NULL) =>
        /\ IF op = "logPrintf" THEN retbool = FALSE ELSE result = WriteNoFile
        /\ bufferCount = pre.writePtr
        /\ io = <<>>
        /\ bytesWrittenTotal = pre.total

\* C8 as claimed: write/writeStr on an attached handle return the status of
\* the last automatic flush of the call, and return 0 if and only if the call
\* made no automatic flush.
C8_Original ==
    (Returned({"write", "writeStr"}) /\ pre.file # NULL) =>
        /\ io # <<>> => result = io[Len(io)].ret
        /\ result = 0 <=> io = <<>>

\* C8 (amended): they return the status of the last automatic flush of the
\* call, and 0 if the call made none (a 0 may also be FS_FWrite's own value).
C8_ReturnsLastFlushStatus ==
    (Returned({"write", "writeStr"}) /\ pre.file # NULL) =>
        result = IF io = <<>> THEN 0 ELSE io[Len(io)].ret

C8_Witness ==
    /\ Returned({"write", "writeStr"}) /\ pre.file # NULL
    /\ Len(io) >= 2
    /\ io[1].ret # io[Len(io)].ret

\* C9 as claimed: when an FS_FWrite issued during write, writeStr, logPrintf
\* or flush fails, the value that call returns tells of a failure: it is
\* WriteNoFile or a failed FS_FWrite status, false for logPrintf.
C9_FailuresReported ==
    (Returned(WriteOps \cup {"flush"}) /\ AnyWriteFailed) =>
        IF op = "logPrintf" THEN retbool = FALSE
        ELSE result = WriteNoFile \/ FS_FWriteFailed(result)

\* C10: setFile(handle) makes handle the attached file, empties the buffer
\* and issues no FS_FWrite, and leaves getBytesWrittenTotal() alone; the bytes
\* it drops are never written: whatever FS_FWrite is handed, together with
\* what is buffered, is always a prefix of the bytes passed to write since
\* the last setFile/clear.
C10_AttachDiscards ==
    /\ Returned({"setFile"}) =>
          /\ file = argFile
          /\ bufferCount = 0
          /\ io = <<>> /\ flushed = <<>>
          /\ getBytesWrittenTotal = pre.total
    /\ IsPrefix(Concat(flushed) \o Buffered, accepted)

C10_Witness ==
    /\ Returned({"setFile"})
    /\ pre.file \in Files /\ file \in Files /\ file # pre.file
    /\ pre.writePtr > 0 /\ pre.total = pre.writePtr
    /\ bufferCount = 0 /\ getBytesWrittenTotal = pre.total

\* C11: the destructor, with a file attached, flushes once: it issues exactly
\* one FS_FWrite, of the buffered bytes and to the attached file, when bytes
\* are buffered and none when the buffer is empty; with no file attached it
\* issues none.  Afterwards no file is attached.
C11_DestructorFlushes ==
    (op = "destroy" /\ ~alive) =>
        /\ (pre.file # NULL /\ pre.writePtr > 0) =>
              /\ Len(io) = 1
              /\ io[1].file = pre.file
              /\ io[1].data = pre.data
              /\ Len(io[1].data) = pre.writePtr
        /\ (pre.file = NULL \/ pre.writePtr = 0) => io = <<>>
        /\ file = NULL

C11_Witness ==
    /\ op = "destroy" /\ ~alive
    /\ pre.file # NULL /\ pre.writePtr > 0
    /\ Len(io) = 1 /\ io[1].data = pre.data

\* C12 as claimed: logPrintf forwards to write() a length clamped to what
\* lineBuff holds: on an attached file the bytes one call appends, and adds
\* to bytesWrittenTotal, number at least 0 and at most LineBuffSize - 1,
\* also when the formatted text is longer than that.
C12_ForwardedLengthClamped ==
    (Returned({"logPrintf"}) /\ pre.file # NULL) =>
        /\ argLen \in 0..(LineBuffSize - 1)
        /\ bytesWrittenTotal - pre.total \in 0..(LineBuffSize - 1)

\* C13 as claimed: writeStr(NULL) and logPrintf(NULL) do nothing: they return
\* success (0, true), append no byte, issue no FS_FWrite and leave
\* bytesWrittenTotal alone.
C13_NullIsNoOp ==
    Returned({"writeStrNull", "logPrintfNull"}) =>
        /\ IF op = "logPrintfNull" THEN retbool = TRUE ELSE result = 0
        /\ bufferCount = pre.writePtr
        /\ Buffered = pre.data
        /\ io = <<>>
        /\ bytesWrittenTotal = pre.total

\* C14 as claimed: logPrintf returns true exactly when a file is attached
\* and no FS_FWrite of the call failed, and false otherwise.
C14_ReturnsSuccessFlag ==
    Returned({"logPrintf"}) =>
        (retbool = TRUE <=> (pre.file # NULL /\ ~AnyWriteFailed))

C16_BestEffort ==
    (Returned(WriteOps) /\ pre.file # NULL /\ AnyWriteFailed) =>
        /\ nChars = 0 /\ source = <<>>
        /\ bytesWrittenTotal = pre.total + argLen
        /\ bufferCount = (pre.writePtr + argLen) % BufferSize
        /\ accepted =
              SubSeq(accepted, 1, Len(accepted) - bufferCount)
                \o SubSeq(buff, 1, bufferCount)

C16_Witness ==
    /\ Returned(WriteOps) /\ pre.file # NULL
    /\ io # <<>> /\ FS_FWriteFailed(io[1].ret)
    /\ bufferCount > 0
    /\ bytesWrittenTotal = pre.total + argLen

\* C17: in every state, those inside write() included, writePtr lies within
\* buff: 0 <= writePtr - buff <= BufferSize, and the byte the loop is about
\* to store goes to an element of buff.
C17_CursorInBounds ==
    /\ writePtr \in 0..BufferSize
    /\ DOMAIN buff = 1..BufferSize
    /\ (pc = "loop" /\ LoopCond(nChars, io)) => writePtr + 1 \in DOMAIN buff

C17_Witness ==
    /\ pc = "check" /\ writePtr = BufferSize
    /\ nChars > 0 /\ pre.writePtr > 0

\* C18: between public operations the buffer is never full:
\* bufferCount() < BufferSize.
C18_NeverFullAtRest ==
    pc = "idle" => bufferCount < BufferSize

C18_Witness ==
    /\ Returned(WriteOps) /\ pre.file # NULL
    /\ pre.writePtr > 0 /\ pre.writePtr + argLen = BufferSize
    /\ Len(io) = 1 /\ bufferCount = 0

\* C19: between public operations, when no file is attached (after the
\* constructor, setFile(NULL) or the destructor) the buffer is empty.
C19_EmptyWithoutFile ==
    (pc = "idle" /\ file = NULL) => bufferCount = 0

C19_Witness ==
    /\ Returned({"setFile"}) /\ file = NULL
    /\ pre.file # NULL /\ pre.writePtr > 0
    /\ bufferCount = 0

\* C20: between public operations the bytes write() has taken since
\* construction are those handed to FS_FWrite (by automatic flushes, flush()
\* and the destructor) plus those dropped by clear()/setFile() plus those
\* still buffered; and since the last clear()/setFile() the bytes handed to
\* FS_FWrite followed by the buffered ones are the bytes taken, each once.
C20_ByteAccounting ==
    pc = "idle" =>
        /\ outstanding = bufferCount
        /\ Concat(flushed) \o SubSeq(buff, 1, bufferCount) = accepted

C20_Witness ==
    /\ Returned(WriteOps) /\ pre.file # NULL
    /\ io # <<>> /\ bufferCount > 0
    /\ sumLens > Len(accepted)
    /\ outstanding = bufferCount

=============================================================================
